---- MODULE Spec2Model ----
(***************************************************************************)
(* A model of app2.py, the Smart Resume Generator: the start-up check of   *)
(* the API key, one run of main() over the form, the nine enrichment       *)
(* operations around the text-generation endpoint, and generate_resume.    *)
(*                                                                         *)
(* A Python string is a sequence of atoms.  The skills string is a         *)
(* sequence of characters, so that split(",") and strip() are computed on  *)
(* it; other texts are sequences of chunks, and an f-string is the         *)
(* concatenation of its literal chunks and its arguments.  The empty       *)
(* string is << >>, and it is the only falsy string.                       *)
(***************************************************************************)
EXTENDS Integers, Sequences, FiniteSets

VARIABLES
    key,              \* os.getenv("GOOGLE_API_KEY") after load_dotenv()
    endpoint,         \* how the text-generation endpoint behaves in this run
    user,             \* what the user has entered in the form's widgets
    submitted,        \* the value st.form_submit_button returns in this run
    pc,               \* the position of the script
    configured,       \* genai.configure(...) has run and `model` exists
    formRendered,     \* main() has rendered the form
    form,             \* main()'s locals name, email, ..., job_description
    page,             \* what the script has put on the page, in order
    calls,            \* the enrichment operations invoked so far, in order
    document,         \* main()'s local `document` (its paragraphs)
    resume_text,      \* main()'s local `resume_text`
    extracted_skills  \* main()'s local `extracted_skills`

vars == <<key, endpoint, user, submitted, pc, configured, formRendered, form,
          page, calls, document, resume_text, extracted_skills>>

----------------------------------------------------------------------------
(* Bounds of the model. *)

MaxExp == 2        \* experience entries entered by the user
MaxEdu == 2        \* education entries
MaxProj == 1       \* project entries
MaxSkillsLen == 3  \* characters of an enumerated skills string
MaxFailures == 1   \* calls a flaky endpoint fails in one run

(* The caps of the form's number_input widgets. *)
ExpCap == 5
EduCap == 3
ProjCap == 5

Min(a, b) == IF a < b THEN a ELSE b

----------------------------------------------------------------------------
(* Strings. *)

Whitespace == {" ", "\t", "\n"}

RECURSIVE lstrip(_)
lstrip(s) == IF s # <<>> /\ Head(s) \in Whitespace THEN lstrip(Tail(s)) ELSE s

RECURSIVE rstrip(_)
rstrip(s) ==
    IF s # <<>> /\ s[Len(s)] \in Whitespace
    THEN rstrip(SubSeq(s, 1, Len(s) - 1))
    ELSE s

(* str.strip(): leading and trailing whitespace removed. *)
strip(s) == rstrip(lstrip(s))

(* The index of the first "," of s, or 0. *)
find(s) ==
    IF \E i \in 1..Len(s) : s[i] = ","
    THEN CHOOSE i \in 1..Len(s) : s[i] = "," /\ \A j \in 1..(i - 1) : s[j] # ","
    ELSE 0

(* str.split(","): the pieces between the commas, empty pieces kept. *)
RECURSIVE split(_)
split(s) ==
    LET i == find(s)
    IN  IF i = 0
        THEN <<s>>
        ELSE <<SubSeq(s, 1, i - 1)>> \o split(SubSeq(s, i + 1, Len(s)))

RECURSIVE Concat(_)
Concat(ss) == IF ss = <<>> THEN <<>> ELSE Head(ss) \o Concat(Tail(ss))

----------------------------------------------------------------------------
(* The text-generation endpoint and the enrichment operations. *)

FixedText == <<"OK">>
ErrorText == <<"503 service unavailable">>

Ok(t) == [ok |-> TRUE, text |-> t]
Raise(e) == [ok |-> FALSE, text |-> e]

(* What model.generate_content(prompt) followed by response.text can do: *)
(* return a text or raise an exception with a message.                    *)
AnyOutcome(mode) ==
    CASE mode = "fixed" -> {Ok(FixedText)}
      [] mode = "raises" -> {Raise(ErrorText)}
      [] OTHER -> {Ok(FixedText), Raise(ErrorText)}

Failures(outs) == Cardinality({i \in 1..Len(outs) : ~outs[i].ok})

FailuresSoFar == Cardinality({i \in 1..Len(calls) : ~calls[i].out.ok})

(* The outcomes of the next n calls.  A "fixed" endpoint always answers, *)
(* a "raises" endpoint always raises, and a "flaky" one raises in at     *)
(* most MaxFailures calls of the run, any of them.                       *)
OutcomeSeqs(mode, n) ==
    {outs \in [1..n -> AnyOutcome(mode)] :
       mode = "flaky" => FailuresSoFar + Failures(outs) <= MaxFailures}

Outcomes(mode) == {outs[1] : outs \in OutcomeSeqs(mode, 1)}

(* Variant: the call is made again after a failure. *)
TryGenerateRetry(op, prompt, errPrefix, out) ==
    [op |-> op,
     prompts |-> IF out.ok THEN <<prompt>> ELSE <<prompt, prompt>>,
     out |-> out,
     raised |-> FALSE,
     result |-> IF out.ok THEN out.text ELSE errPrefix \o out.text]

(* Variant: the response text is labelled before it is returned. *)
TryGenerateDecorated(op, prompt, errPrefix, out) ==
    [op |-> op,
     prompts |-> <<prompt>>,
     out |-> out,
     raised |-> FALSE,
     result |-> IF out.ok THEN <<"Result: ">> \o out.text
                ELSE errPrefix \o out.text]

(* The body shared by the nine operations: one generate_content(prompt)   *)
(* inside try, response.text returned, any Exception turned into the      *)
(* operation's error string.  The record is the invocation: the prompts   *)
(* it submitted, what the endpoint did, what it returned to its caller,   *)
(* and whether an exception left it.                                      *)
TryGenerate(op, prompt, errPrefix, out) ==
    [op |-> op,
     prompts |-> <<prompt>>,
     out |-> out,
     raised |-> FALSE,
     result |-> IF out.ok THEN out.text ELSE errPrefix \o out.text]

SummarizePrompt(description) ==
    <<"Summarize the following job description in 3 concise bullet points ...:\n\n">>
        \o description

(* Variant: no except clause around the call. *)
summarize_experience_uncaught(description, out) ==
    [op |-> "summarize_experience",
     prompts |-> <<SummarizePrompt(description)>>,
     out |-> out,
     raised |-> ~out.ok,
     result |-> out.text]

summarize_experience(description, out) ==
    TryGenerate("summarize_experience", SummarizePrompt(description),
                <<"Error summarizing experience: ">>, out)

generate_skills_suggestions(description, out) ==
    TryGenerate("generate_skills_suggestions",
                <<"Extract a list of relevant skills from the following job description:\n\n">>
                    \o description,
                <<"Error generating skills: ">>, out)

generate_cover_letter(name, job_description, out) ==
    TryGenerate("generate_cover_letter",
                <<"Write a cover letter for ">> \o name
                    \o <<" based on the following job description. ...:\n\n">>
                    \o job_description,
                <<"Error generating cover letter: ">>, out)

suggest_improvements(job_description, skills, out) ==
    TryGenerate("suggest_improvements",
                <<"Based on the following job description and provided skills, suggest improvements ...: \n\nJob Description: ">>
                    \o job_description \o <<"\nSkills: ">> \o skills,
                <<"Error generating suggestions: ">>, out)

extract_skills_qualifications(job_description, out) ==
    TryGenerate("extract_skills_qualifications",
                <<"Extract key skills, qualifications, and responsibilities from the following job description:\n\n">>
                    \o job_description,
                <<"Error extracting skills and qualifications: ">>, out)

highlight_missing_skills(user_skills, extracted, out) ==
    TryGenerate("highlight_missing_skills",
                <<"You are a career expert comparing two lists of skills. Given the following list of skills the candidate posesses: ">>
                    \o user_skills
                    \o <<", and the following list of skills required by a job description: ">>
                    \o extracted
                    \o <<", what skills are the candidate missing?\n    Make your response a comma separated list of skills">>,
                <<"Error highlighting missing skills: ">>, out)

suggest_profile_improvements(linkedin_data, out) ==
    TryGenerate("suggest_profile_improvements",
                <<"Based on the following LinkedIn profile data, suggest improvements to the profile ...:\n\n">>
                    \o linkedin_data,
                <<"Error suggesting profile improvements: ">>, out)

generate_interview_questions(resume_content, out) ==
    TryGenerate("generate_interview_questions",
                <<"Generate potential interview questions based on the following resume content. ...:\n\n">>
                    \o resume_content,
                <<"Error generating interview questions: ">>, out)

analyze_strengths_weaknesses(resume_content, out) ==
    TryGenerate("analyze_strengths_weaknesses",
                <<"Analyze the strengths and weaknesses of a candidate based on the following resume content. Provide constructive feedback:\n\n">>
                    \o resume_content,
                <<"Error analyzing strengths and weaknesses: ">>, out)

----------------------------------------------------------------------------
(* generate_resume.  A document is the sequence of its paragraphs; a       *)
(* heading is a paragraph with a heading style.                            *)

Paragraph(style, text) == [style |-> style, text |-> text]
add_heading(text, level) ==
    Paragraph(IF level = 1 THEN "Heading 1" ELSE "Heading 2", text)
add_paragraph(text) == Paragraph("Normal", text)

HeaderBlock(name, email, phone, linkedin, github) ==
    << add_heading(name, 1),
       add_paragraph(email \o <<" | ">> \o phone \o <<" | [LinkedIn](">>
                     \o linkedin \o <<") | [GitHub](">> \o github \o <<")">>) >>

(* Variant: blank tokens are dropped. *)
SkillsSectionFiltered(skills) ==
    LET skills_list == SelectSeq(split(skills), LAMBDA t : strip(t) # <<>>)
    IN  <<add_heading(<<"Skills">>, 2)>>
        \o [i \in 1..Len(skills_list) |->
               Paragraph("List Bullet", strip(skills_list[i]))]

SkillsSection(skills) ==
    LET skills_list == split(skills)
    IN  <<add_heading(<<"Skills">>, 2)>>
        \o [i \in 1..Len(skills_list) |->
               Paragraph("List Bullet", strip(skills_list[i]))]

(* Variants: every entry is summarized; no entry is. *)
UseSummaryAlways(exp) == TRUE
UseSummaryNever(exp) == FALSE
(* Whether the loop body summarizes the entry's description (line 191). *)
UseSummary(exp) == exp.description # <<>>

(* Variant: the raw description is kept. *)
SummarizedParagraphRaw(exp, call) == add_paragraph(exp.description)
(* The description paragraph of an entry that was summarized (line 193). *)
SummarizedParagraph(exp, call) == add_paragraph(call.result)

(* The loop over the experience entries.  outs holds the endpoint's       *)
(* outcome for each call the loop makes, in order.  An exception leaving  *)
(* summarize_experience ends the loop and generate_resume.                *)
RECURSIVE ExperienceBlocks(_, _)
ExperienceBlocks(experience, outs) ==
    IF experience = <<>>
    THEN [paragraphs |-> <<>>, calls |-> <<>>, raised |-> FALSE]
    ELSE
      LET exp == Head(experience)
          head == << Paragraph("Heading 3", exp.title),
                     add_paragraph(exp.company \o <<" | ">> \o exp.dates) >>
      IN  IF UseSummary(exp)
          THEN
            LET call == summarize_experience(exp.description, Head(outs))
                rest == ExperienceBlocks(Tail(experience), Tail(outs))
            IN  IF call.raised
                THEN [paragraphs |-> head, calls |-> <<call>>, raised |-> TRUE]
                ELSE [paragraphs |->
                          head \o <<SummarizedParagraph(exp, call)>>
                               \o rest.paragraphs,
                      calls |-> <<call>> \o rest.calls,
                      raised |-> rest.raised]
          ELSE
            LET rest == ExperienceBlocks(Tail(experience), outs)
            IN  [paragraphs |->
                     head \o <<add_paragraph(exp.description)>>
                          \o rest.paragraphs,
                 calls |-> rest.calls,
                 raised |-> rest.raised]

EducationBlocks(education) ==
    Concat([i \in 1..Len(education) |->
              << Paragraph("Heading 3", education[i].degree),
                 add_paragraph(education[i].school \o <<" | ">>
                               \o education[i].dates),
                 add_paragraph(education[i].description) >>])

ProjectBlocks(projects) ==
    Concat([i \in 1..Len(projects) |->
              << Paragraph("Heading 3", projects[i].title),
                 add_paragraph(projects[i].description) >>])

(* The number of calls of summarize_experience the loop makes. *)
NumSummaries(experience) ==
    Cardinality({i \in 1..Len(experience) : UseSummary(experience[i])})

(* Variant: Projects before Education. *)
generate_resume_swapped(name, email, phone, linkedin, github, skills, experience, education, projects, outs) ==
    LET e == ExperienceBlocks(experience, outs)
    IN  [document |->
             HeaderBlock(name, email, phone, linkedin, github)
             \o SkillsSection(skills)
             \o <<add_heading(<<"Experience">>, 2)>> \o e.paragraphs
             \o <<add_heading(<<"Projects">>, 2)>> \o ProjectBlocks(projects)
             \o <<add_heading(<<"Education">>, 2)>> \o EducationBlocks(education),
         calls |-> e.calls,
         raised |-> e.raised]

generate_resume(name, email, phone, linkedin, github, skills, experience, education, projects, outs) ==
    LET e == ExperienceBlocks(experience, outs)
    IN  [document |->
             HeaderBlock(name, email, phone, linkedin, github)
             \o SkillsSection(skills)
             \o <<add_heading(<<"Experience">>, 2)>> \o e.paragraphs
             \o <<add_heading(<<"Education">>, 2)>> \o EducationBlocks(education)
             \o <<add_heading(<<"Projects">>, 2)>> \o ProjectBlocks(projects),
         calls |-> e.calls,
         raised |-> e.raised]

----------------------------------------------------------------------------
(* The run's environment and the user's entries. *)

Ordinal == <<"1", "2", "3", "4", "5", "6">>

AbsentKey == [present |-> FALSE, value |-> <<>>]
Keys == {AbsentKey,
         [present |-> TRUE, value |-> <<>>],
         [present |-> TRUE, value |-> <<"AIza-key">>]}

Modes == {"fixed", "raises", "flaky"}

ExperienceEntry(i, described) ==
    [title |-> <<"Job ", Ordinal[i]>>,
     company |-> <<"Company ", Ordinal[i]>>,
     dates |-> <<"2020 - 2021">>,
     description |-> IF described THEN <<"Did work ", Ordinal[i]>> ELSE <<>>]

(* Up to MaxExp entries (the widget allows ExpCap), each with or without *)
(* a description.                                                        *)
ExperienceInputs ==
    UNION {{[i \in 1..n |-> ExperienceEntry(i, d[i])] : d \in [1..n -> BOOLEAN]} :
           n \in 0..Min(MaxExp, ExpCap)}

(* Every second education entry and every second project has no description. *)
EducationEntry(i) ==
    [degree |-> <<"Degree ", Ordinal[i]>>,
     school |-> <<"School ", Ordinal[i]>>,
     dates |-> <<"2016 - 2020">>,
     description |-> IF i % 2 = 1 THEN <<"Studied ", Ordinal[i]>> ELSE <<>>]

EducationInputs ==
    {[i \in 1..n |-> EducationEntry(i)] : n \in 0..Min(MaxEdu, EduCap)}

ProjectEntry(i) ==
    [title |-> <<"Project ", Ordinal[i]>>,
     description |-> IF i % 2 = 1 THEN <<"Built ", Ordinal[i]>> ELSE <<>>]

ProjectInputs ==
    {[i \in 1..n |-> ProjectEntry(i)] : n \in 0..Min(MaxProj, ProjCap)}

(* A URL is << scheme, "://", netloc, path... >>, or only its path. *)
LinkedinInputs ==
    { <<>>,
      <<"https", "://", "www.linkedin.com", "/in/", "ann">>,
      <<"https", "://", "linkedin.example.org", "/in/", "ann">> }

ExampleSkills == <<"A", ",", " ", "B", ",", "C">>

SkillChars == {"A", ",", " ", "\n"}

(* Every skills string of at most MaxSkillsLen characters. *)
AllSkills ==
    UNION {[1..n -> SkillChars] : n \in 0..MaxSkillsLen} \cup {ExampleSkills}

FewSkills == {<<>>, ExampleSkills}

Users(skillsInputs, experienceInputs, educationInputs, projectInputs) ==
    [name : {<<>>, <<"Ann Lee">>},
     email : {<<>>, <<"ann@example.org">>},
     phone : {<<"555 0100">>},
     linkedin : LinkedinInputs,
     github : {<<"github.example.org/ann">>},
     skills : skillsInputs,
     experience : experienceInputs,
     education : educationInputs,
     projects : projectInputs,
     job_description : {<<"We need an engineer.">>}]

(* main()'s locals before the form is read. *)
NoForm ==
    [name |-> <<>>, email |-> <<>>, phone |-> <<>>, linkedin |-> <<>>,
     github |-> <<>>, skills |-> <<>>, experience |-> <<>>,
     education |-> <<>>, projects |-> <<>>, job_description |-> <<>>]

----------------------------------------------------------------------------
(* The page. *)

Element(kind, body) == [kind |-> kind, body |-> body]

(* The calls up to and including the first one an exception left. *)
RECURSIVE UntilRaised(_)
UntilRaised(cs) ==
    IF cs = <<>> THEN <<>>
    ELSE IF Head(cs).raised THEN <<Head(cs)>>
    ELSE <<Head(cs)>> \o UntilRaised(Tail(cs))

Raised(cs) == \E i \in 1..Len(cs) : cs[i].raised

----------------------------------------------------------------------------
(* Start-up: lines 15-25. *)

(* Variant: the check is skipped. *)
KeyMissingNever(k) == FALSE
(* `not GOOGLE_API_KEY`: the variable is unset (None) or empty. *)
KeyMissing(k) == ~k.present \/ k.value = <<>>

Startup ==
    /\ pc = "start"
    /\ IF KeyMissing(key)
       THEN /\ page' = page \o
                  <<Element("error",
                            <<"Please set the GOOGLE_API_KEY environment variable.">>)>>
            /\ pc' = "stopped"
            /\ configured' = FALSE
       ELSE /\ page' = page
            /\ pc' = "main"
            /\ configured' = TRUE
    /\ UNCHANGED <<key, endpoint, user, submitted, formRendered, form, calls,
                   document, resume_text, extracted_skills>>

----------------------------------------------------------------------------
(* main(): the form, lines 215-267.  Every experience entry of the form   *)
(* calls generate_skills_suggestions on its description while the form is *)
(* rendered, submitted or not.                                            *)

ExperienceWidgets(made) ==
    Concat([i \in 1..Len(made) |->
              <<Element("subheader", <<"Experience #", Ordinal[i]>>)>>
              \o IF made[i].raised THEN <<>>
                 ELSE <<Element("write",
                                <<"Suggested Skills for this Experience:\n">>
                                    \o made[i].result)>>])

RenderForm ==
    /\ pc = "main"
    /\ \E outs \in OutcomeSeqs(endpoint, Len(user.experience)) :
         LET made == UntilRaised(
                       [i \in 1..Len(user.experience) |->
                          generate_skills_suggestions(
                              user.experience[i].description, outs[i])])
             top == << Element("title", <<"Smart Resume Generator">>),
                       Element("header", <<"Personal Information">>),
                       Element("header", <<"Skills">>),
                       Element("header", <<"Experience">>) >>
                    \o ExperienceWidgets(made)
         IN  /\ calls' = calls \o made
             /\ IF Raised(made)
                THEN /\ pc' = "crashed"
                     /\ page' = page \o top
                     /\ UNCHANGED <<form, formRendered>>
                ELSE /\ pc' = "check"
                     /\ page' = page \o top
                          \o <<Element("header", <<"Education">>)>>
                          \o [i \in 1..Len(user.education) |->
                                Element("subheader", <<"Education #", Ordinal[i]>>)]
                          \o <<Element("header", <<"Projects">>)>>
                          \o [i \in 1..Len(user.projects) |->
                                Element("subheader", <<"Project #", Ordinal[i]>>)]
                          \o <<Element("header", <<"Job Description Analysis">>)>>
                     /\ form' = user
                     /\ formRendered' = TRUE
    /\ UNCHANGED <<key, endpoint, user, submitted, configured, document,
                   resume_text, extracted_skills>>

(* Line 269, `if submitted:` false: the script ends. *)
NotSubmitted ==
    /\ pc = "check"
    /\ ~submitted
    /\ pc' = "idle"
    /\ UNCHANGED <<key, endpoint, user, submitted, configured, formRendered,
                   form, page, calls, document, resume_text, extracted_skills>>

(* Variant: the skills are not required. *)
RequiredMissingNoSkills(name, email, skills) == name = <<>> \/ email = <<>>
(* Line 271: `not name or not email or not skills`. *)
RequiredMissing(name, email, skills) ==
    name = <<>> \/ email = <<>> \/ skills = <<>>

(* Lines 271-272: the error, and the script ends. *)
Reject ==
    /\ pc = "check"
    /\ submitted
    /\ RequiredMissing(form.name, form.email, form.skills)
    /\ page' = page \o
           <<Element("error",
                     <<"Please fill in all required fields (Name, Email, Skills).">>)>>
    /\ pc' = "rejected"
    /\ UNCHANGED <<key, endpoint, user, submitted, configured, formRendered,
                   form, calls, document, resume_text, extracted_skills>>

----------------------------------------------------------------------------
(* LinkedIn integration: lines 107-136 and 275-285. *)

urlparse(url) ==
    IF Len(url) >= 2 /\ url[2] = "://"
    THEN [scheme |-> url[1],
          netloc |-> IF Len(url) >= 3 THEN url[3] ELSE "",
          path |-> SubSeq(url, 4, Len(url))]
    ELSE [scheme |-> "", netloc |-> "", path |-> url]

is_valid_linkedin_url(url) ==
    LET result == urlparse(url)
    IN  /\ result.scheme # ""
        /\ result.netloc = "www.linkedin.com"
        /\ result.path # <<>> /\ result.path[1] = "/in/"

(* The dummy dataset fetch_linkedin_data returns, as the f-string prints it. *)
LinkedinData ==
    <<"{'name': 'John Doe (Example)', 'skills': 'Python, Data Analysis, Machine Learning', 'experience': [...], 'education': [...]}">>

LinkedInIntegration ==
    /\ pc = "check"
    /\ submitted
    /\ ~RequiredMissing(form.name, form.email, form.skills)
    /\ IF form.linkedin # <<>> /\ is_valid_linkedin_url(form.linkedin)
       THEN \E out \in Outcomes(endpoint) :
              LET call == suggest_profile_improvements(LinkedinData, out)
                  shown == << Element("warning",
                                      <<"Fetching LinkedIn data directly is risky.  Use a LinkedIn API or proceed with caution.">>),
                              Element("success",
                                      <<"LinkedIn data fetched (with caution!).">>) >>
              IN  /\ calls' = Append(calls, call)
                  /\ IF call.raised
                     THEN pc' = "crashed" /\ page' = page \o shown
                     ELSE /\ pc' = "generate"
                          /\ page' = page \o shown \o
                               << Element("header",
                                          <<"LinkedIn Profile Improvement Suggestions">>),
                                  Element("write", call.result) >>
       ELSE /\ page' = page \o
                  <<Element("warning",
                            <<"Invalid LinkedIn URL or LinkedIn integration skipped.">>)>>
            /\ pc' = "generate"
            /\ calls' = calls
    /\ UNCHANGED <<key, endpoint, user, submitted, configured, formRendered,
                   form, document, resume_text, extracted_skills>>

----------------------------------------------------------------------------
(* Line 289: the call of generate_resume. *)

GenerateResume ==
    /\ pc = "generate"
    /\ \E outs \in OutcomeSeqs(endpoint, NumSummaries(form.experience)) :
         LET r == generate_resume(form.name, form.email, form.phone,
                                  form.linkedin, form.github, form.skills,
                                  form.experience, form.education,
                                  form.projects, outs)
         IN  /\ calls' = calls \o r.calls
             /\ IF r.raised
                THEN pc' = "crashed" /\ document' = document
                ELSE pc' = "export" /\ document' = r.document
    /\ UNCHANGED <<key, endpoint, user, submitted, configured, formRendered,
                   form, page, resume_text, extracted_skills>>

(* Lines 291-309: resume_text, the download link and the QR image.  The    *)
(* link's base64 payload is the saved document; it stands here as one     *)
(* chunk, the document itself being in `document`.                        *)
Export ==
    /\ pc = "export"
    /\ resume_text' =
           Concat([i \in 1..Len(document) |-> document[i].text \o <<"\n">>])
    /\ page' = page \o
           << Element("markdown",
                      <<"<a href=\"data:application/vnd.openxmlformats-officedocument.wordprocessingml.document;base64,",
                        "{b64}", "\" download=\"">>
                      \o form.name
                      \o <<"_resume.docx\">Download Resume (docx)</a>">>),
              Element("image",
                      <<"QR:", "https://linkedin.com/in/">> \o form.linkedin) >>
    /\ pc' = "cover"
    /\ UNCHANGED <<key, endpoint, user, submitted, configured, formRendered,
                   form, calls, document, extracted_skills>>

----------------------------------------------------------------------------
(* Lines 311-337: the six enrichment calls after the export, each shown    *)
(* under its header.                                                      *)

(* The page and the position after an enrichment call made at a step. *)
Shown(call, header, next) ==
    /\ calls' = Append(calls, call)
    /\ IF call.raised
       THEN pc' = "crashed" /\ page' = page
       ELSE /\ pc' = next
            /\ page' = page \o
                 <<Element("header", <<header>>), Element("write", call.result)>>

CoverLetter ==
    /\ pc = "cover"
    /\ \E out \in Outcomes(endpoint) :
         Shown(generate_cover_letter(form.name, form.job_description, out),
               "Generated Cover Letter", "improve")
    /\ UNCHANGED <<key, endpoint, user, submitted, configured, formRendered,
                   form, document, resume_text, extracted_skills>>

Improvements ==
    /\ pc = "improve"
    /\ \E out \in Outcomes(endpoint) :
         Shown(suggest_improvements(form.job_description, form.skills, out),
               "Suggested Improvements", "extract")
    /\ UNCHANGED <<key, endpoint, user, submitted, configured, formRendered,
                   form, document, resume_text, extracted_skills>>

ExtractSkills ==
    /\ pc = "extract"
    /\ \E out \in Outcomes(endpoint) :
         LET call == extract_skills_qualifications(form.job_description, out)
         IN  /\ Shown(call, "Extracted Skills from Job Description", "missing")
             /\ extracted_skills' =
                    IF call.raised THEN extracted_skills ELSE call.result
    /\ UNCHANGED <<key, endpoint, user, submitted, configured, formRendered,
                   form, document, resume_text>>

MissingSkills ==
    /\ pc = "missing"
    /\ \E out \in Outcomes(endpoint) :
         Shown(highlight_missing_skills(form.skills, extracted_skills, out),
               "Missing Skills (Based on Job Description)", "interview")
    /\ UNCHANGED <<key, endpoint, user, submitted, configured, formRendered,
                   form, document, resume_text, extracted_skills>>

InterviewQuestions ==
    /\ pc = "interview"
    /\ \E out \in Outcomes(endpoint) :
         Shown(generate_interview_questions(resume_text, out),
               "Possible Interview Questions", "strengths")
    /\ UNCHANGED <<key, endpoint, user, submitted, configured, formRendered,
                   form, document, resume_text, extracted_skills>>

StrengthsWeaknesses ==
    /\ pc = "strengths"
    /\ \E out \in Outcomes(endpoint) :
         Shown(analyze_strengths_weaknesses(resume_text, out),
               "Strengths and Weaknesses Analysis", "done")
    /\ UNCHANGED <<key, endpoint, user, submitted, configured, formRendered,
                   form, document, resume_text, extracted_skills>>

----------------------------------------------------------------------------
(* One run of the script. *)

InitWith(users, modes) ==
    /\ key \in Keys
    /\ endpoint \in modes
    /\ user \in users
    /\ submitted \in BOOLEAN
    /\ pc = "start"
    /\ configured = FALSE
    /\ formRendered = FALSE
    /\ form = NoForm
    /\ page = <<>>
    /\ calls = <<>>
    /\ document = <<>>
    /\ resume_text = <<>>
    /\ extracted_skills = <<>>

(* Few skills strings, every list of entries, every endpoint behaviour. *)
Init ==
    InitWith(Users(FewSkills, ExperienceInputs, EducationInputs, ProjectInputs),
             Modes)

(* Every skills string, one list of each kind of entry, an endpoint that *)
(* answers or one that raises.                                           *)
InitSkills ==
    InitWith(Users(AllSkills,
                   {[i \in 1..1 |-> ExperienceEntry(i, TRUE)]},
                   {[i \in 1..1 |-> EducationEntry(i)]},
                   {[i \in 1..1 |-> ProjectEntry(i)]}),
             {"fixed", "raises"})

Next ==
    \/ Startup
    \/ RenderForm
    \/ NotSubmitted
    \/ Reject
    \/ LinkedInIntegration
    \/ GenerateResume
    \/ Export
    \/ CoverLetter
    \/ Improvements
    \/ ExtractSkills
    \/ MissingSkills
    \/ InterviewQuestions
    \/ StrengthsWeaknesses

Spec == Init /\ [][Next]_vars

SpecSkills == InitSkills /\ [][Next]_vars

----------------------------------------------------------------------------
(* Reading a document and the log of calls, for the properties below. *)

(* The positions after line 289 has returned a document. *)
Generated ==
    pc \in {"export", "cover", "improve", "extract", "missing", "interview",
            "strengths", "done"}

Texts(ps) == [i \in 1..Len(ps) |-> ps[i].text]

Styled(d, style) == SelectSeq(d, LAMBDA p : p.style = style)

(* The position of the k-th "Heading 2" paragraph of d, or 0. *)
SectionAt(d, k) ==
    LET at == {i \in 1..Len(d) :
                 /\ d[i].style = "Heading 2"
                 /\ Cardinality({j \in 1..i : d[j].style = "Heading 2"}) = k}
    IN  IF at = {} THEN 0 ELSE CHOOSE i \in at : TRUE

(* The paragraphs of the k-th section of d, its heading left out. *)
SectionBody(d, k) ==
    LET from == SectionAt(d, k)
        next == SectionAt(d, k + 1)
    IN  SubSeq(d, from + 1, IF next = 0 THEN Len(d) ELSE next - 1)

(* body is n sub-blocks of `size` paragraphs, each led by a "Heading 3". *)
SubBlocks(body, n, size) ==
    /\ Len(body) = n * size
    /\ \A j \in 1..Len(body) :
         (body[j].style = "Heading 3") <=> (j % size = 1)

(* Header, Skills, Experience, Education, Projects in this order, with as *)
(* many sub-blocks as entries, in the order of the entries.               *)
WellFormed(d, f) ==
    LET skills == SectionBody(d, 1)
        experience == SectionBody(d, 2)
        education == SectionBody(d, 3)
        projects == SectionBody(d, 4)
    IN  /\ Len(d) >= 6
        /\ d[1] = [style |-> "Heading 1", text |-> f.name]
        /\ d[2].style = "Normal"
        /\ Len(Styled(d, "Heading 1")) = 1
        /\ Texts(Styled(d, "Heading 2"))
             = << <<"Skills">>, <<"Experience">>, <<"Education">>,
                  <<"Projects">> >>
        /\ SectionAt(d, 1) = 3
        /\ \A j \in 1..Len(skills) : skills[j].style = "List Bullet"
        /\ SubBlocks(experience, Len(f.experience), 3)
        /\ SubBlocks(education, Len(f.education), 3)
        /\ SubBlocks(projects, Len(f.projects), 2)
        /\ Texts(Styled(experience, "Heading 3"))
             = [i \in 1..Len(f.experience) |-> f.experience[i].title]
        /\ Texts(Styled(education, "Heading 3"))
             = [i \in 1..Len(f.education) |-> f.education[i].degree]
        /\ Texts(Styled(projects, "Heading 3"))
             = [i \in 1..Len(f.projects) |-> f.projects[i].title]

(* The k-th paragraph of the i-th sub-block (of `size`) of section s. *)
BlockParagraph(d, s, size, i, k) == d[SectionAt(d, s) + size * (i - 1) + k]

Described(experience) ==
    {i \in 1..Len(experience) : experience[i].description # <<>>}

(* The calls of summarize_experience; line 192 is its only call site. *)
SummarizeCalls == SelectSeq(calls, LAMBDA c : c.op = "summarize_experience")

(* The call that summarized entry i: one call per described entry. *)
Rank(experience, i) == Cardinality({j \in Described(experience) : j <= i})

----------------------------------------------------------------------------
(* C1: whatever the input, the document generate_resume returns has the   *)
(* sections Header, Skills, Experience, Education, Projects in this       *)
(* order, all five headings, and in Experience, Education and Projects    *)
(* exactly one sub-block per entry supplied, in input order (none when    *)
(* the list is empty).                                                    *)
C1_SectionOrder == Generated => WellFormed(document, form)

C1_Witness ==
    /\ pc = "done"
    /\ Len(form.experience) = 2
    /\ Len(form.education) = 0
    /\ Len(form.projects) = 1

----------------------------------------------------------------------------
(* The skills string read by the positions of its commas. *)

Commas(s) == {i \in 1..Len(s) : s[i] = ","}

(* The position of the k-th comma of s; 0 before the first, Len(s) + 1    *)
(* after the last.                                                        *)
CommaAt(s, k) ==
    IF k = 0 THEN 0
    ELSE IF k > Cardinality(Commas(s)) THEN Len(s) + 1
    ELSE CHOOSE i \in Commas(s) : Cardinality({j \in Commas(s) : j <= i}) = k

(* The k-th token: what stands between the (k-1)-th and the k-th comma. *)
Token(s, k) == SubSeq(s, CommaAt(s, k - 1) + 1, CommaAt(s, k) - 1)

(* t is u without its leading and trailing whitespace. *)
IsTrimOf(t, u) ==
    /\ \E a \in 0..Len(u) : \E b \in 0..(Len(u) - a) :
         /\ \A j \in 1..a : u[j] \in Whitespace
         /\ \A j \in (Len(u) - b + 1)..Len(u) : u[j] \in Whitespace
         /\ t = SubSeq(u, a + 1, Len(u) - b)
    /\ t # <<>> => t[1] \notin Whitespace /\ t[Len(t)] \notin Whitespace

Bullets(d) == Texts(Styled(d, "List Bullet"))

(* C2: the Skills section holds one bullet paragraph per token of the     *)
(* skills string split on commas, each trimmed of surrounding whitespace, *)
(* in the original order, empty tokens kept: (number of commas + 1)       *)
(* bullets, and "A, B,C" gives the bullets "A", "B", "C".                 *)
C2_SkillBullets ==
    Generated =>
      /\ Len(Bullets(document)) = Cardinality(Commas(form.skills)) + 1
      /\ \A k \in 1..Len(Bullets(document)) :
           IsTrimOf(Bullets(document)[k], Token(form.skills, k))
      /\ Bullets(document) = Texts(SectionBody(document, 1))
      /\ form.skills = ExampleSkills
           => Bullets(document) = << <<"A">>, <<"B">>, <<"C">> >>

(* "A, " gives the bullets "A" and "": trimmed, and the empty token kept. *)
C2_Witness ==
    /\ pc = "done"
    /\ form.skills = <<"A", ",", " ">>
    /\ Bullets(document) = << <<"A">>, <<>> >>

----------------------------------------------------------------------------
(* C3: when the endpoint returns the fixed text T, an experience entry    *)
(* whose description is enriched gets a title paragraph, a                *)
(* "company | dates" paragraph and a description paragraph equal to T,    *)
(* the endpoint's text verbatim; every Education and Projects description *)
(* paragraph is the raw description.                                      *)
C3_EnrichedVerbatim ==
    Generated =>
      /\ \A i \in Described(form.experience) :
           LET exp == form.experience[i]
               k == Rank(form.experience, i)
           IN  /\ BlockParagraph(document, 2, 3, i, 1)
                    = [style |-> "Heading 3", text |-> exp.title]
               /\ BlockParagraph(document, 2, 3, i, 2)
                    = [style |-> "Normal",
                       text |-> exp.company \o <<" | ">> \o exp.dates]
               /\ BlockParagraph(document, 2, 3, i, 3).style = "Normal"
               /\ k <= Len(SummarizeCalls)
               /\ SummarizeCalls[k].out.ok =>
                    BlockParagraph(document, 2, 3, i, 3).text
                      = SummarizeCalls[k].out.text
               /\ endpoint = "fixed" =>
                    BlockParagraph(document, 2, 3, i, 3).text = FixedText
      /\ \A i \in 1..Len(form.education) :
           BlockParagraph(document, 3, 3, i, 3)
             = [style |-> "Normal", text |-> form.education[i].description]
      /\ \A i \in 1..Len(form.projects) :
           BlockParagraph(document, 4, 2, i, 2)
             = [style |-> "Normal", text |-> form.projects[i].description]

C3_Witness ==
    /\ pc = "export"
    /\ endpoint = "fixed"
    /\ Described(form.experience) # {}
    /\ Len(form.education) >= 1
    /\ Len(form.projects) >= 1
    /\ BlockParagraph(document, 2, 3, 1, 3).text = <<"OK">>

----------------------------------------------------------------------------
(* C4: with an endpoint that always raises, generate_resume still returns *)
(* a complete document (no exception leaves it, the five sections and     *)
(* every entry's sub-block are there), and each experience description    *)
(* whose enrichment failed is replaced by the error text of the failed    *)
(* call.                                                                  *)
C4_FailureInDocument ==
    /\ endpoint = "raises" =>
         /\ pc # "crashed"
         /\ Generated =>
              /\ WellFormed(document, form)
              /\ \A i \in Described(form.experience) :
                   BlockParagraph(document, 2, 3, i, 3).text
                     = <<"Error summarizing experience: ">> \o ErrorText
    /\ Generated =>
         \A i \in Described(form.experience) :
           LET k == Rank(form.experience, i)
           IN  /\ k <= Len(SummarizeCalls)
               /\ ~SummarizeCalls[k].out.ok =>
                    BlockParagraph(document, 2, 3, i, 3).text
                      = <<"Error summarizing experience: ">>
                          \o SummarizeCalls[k].out.text

C4_Witness ==
    /\ pc = "export"
    /\ endpoint = "raises"
    /\ Cardinality(Described(form.experience)) = 2
    /\ Len(form.education) >= 1

----------------------------------------------------------------------------
(* The error string of each operation's except clause. *)
ErrorPrefix(op) ==
    CASE op = "summarize_experience" -> <<"Error summarizing experience: ">>
      [] op = "generate_skills_suggestions" -> <<"Error generating skills: ">>
      [] op = "generate_cover_letter" -> <<"Error generating cover letter: ">>
      [] op = "suggest_improvements" -> <<"Error generating suggestions: ">>
      [] op = "extract_skills_qualifications"
           -> <<"Error extracting skills and qualifications: ">>
      [] op = "highlight_missing_skills"
           -> <<"Error highlighting missing skills: ">>
      [] op = "suggest_profile_improvements"
           -> <<"Error suggesting profile improvements: ">>
      [] op = "generate_interview_questions"
           -> <<"Error generating interview questions: ">>
      [] op = "analyze_strengths_weaknesses"
           -> <<"Error analyzing strengths and weaknesses: ">>

EnrichmentOps ==
    {"summarize_experience", "generate_skills_suggestions",
     "generate_cover_letter", "suggest_improvements",
     "extract_skills_qualifications", "highlight_missing_skills",
     "suggest_profile_improvements", "generate_interview_questions",
     "analyze_strengths_weaknesses"}

(* C5: each of the nine enrichment operations returns a string and lets   *)
(* no failure out: the endpoint's text unmodified when the call succeeds, *)
(* the operation's error string in its place when the call fails.         *)
C5_TextOrErrorString ==
    /\ pc # "crashed"
    /\ \A i \in 1..Len(calls) :
         /\ calls[i].op \in EnrichmentOps
         /\ ~calls[i].raised
         /\ calls[i].out.ok => calls[i].result = calls[i].out.text
         /\ ~calls[i].out.ok =>
              calls[i].result = ErrorPrefix(calls[i].op) \o calls[i].out.text

(* All nine have been invoked, some with success and some with failure. *)
C5_Witness ==
    /\ pc = "done"
    /\ {calls[i].op : i \in 1..Len(calls)} = EnrichmentOps
    /\ \E i \in 1..Len(calls) : ~calls[i].out.ok
    /\ \E i \in 1..Len(calls) : calls[i].out.ok

----------------------------------------------------------------------------
(* The enrichment operations main() calls after its validation. *)
PostSubmissionOps ==
    {"suggest_profile_improvements", "generate_cover_letter",
     "suggest_improvements", "extract_skills_qualifications",
     "highlight_missing_skills", "generate_interview_questions",
     "analyze_strengths_weaknesses"}

Kinds(elements) == {elements[i].kind : i \in 1..Len(elements)}

Ops(cs) == {cs[i].op : i \in 1..Len(cs)}

(* C6: a form submitted with name, email or skills empty gets a blocking  *)
(* error message and is not processed: generate_resume is not called, no  *)
(* download link and no QR image are produced, and none of the enrichment *)
(* calls that follow a submission is made.                                *)
C6_RejectedNotProcessed ==
    ( /\ formRendered
      /\ submitted
      /\ form.name = <<>> \/ form.email = <<>> \/ form.skills = <<>> )
    => /\ pc \in {"check", "rejected"}
       /\ document = <<>>
       /\ "summarize_experience" \notin Ops(calls)
       /\ Kinds(page) \cap {"markdown", "image"} = {}
       /\ Ops(calls) \cap PostSubmissionOps = {}
       /\ pc = "rejected" =>
            page[Len(page)] =
              [kind |-> "error",
               body |-> <<"Please fill in all required fields (Name, Email, Skills).">>]

(* Only the skills are missing, and the form had an experience entry. *)
C6_Witness ==
    /\ pc = "rejected"
    /\ form.name # <<>>
    /\ form.email # <<>>
    /\ form.skills = <<>>
    /\ Len(form.experience) >= 1

----------------------------------------------------------------------------
(* C7: with no API key in the environment at start-up the program halts   *)
(* before serving: the client is never configured, the form is never      *)
(* rendered and no enrichment call is made in that run.                   *)
C7_NoKeyHalts ==
    ~key.present =>
      /\ pc \in {"start", "stopped"}
      /\ ~configured
      /\ ~formRendered
      /\ calls = <<>>
      /\ Kinds(page) \subseteq {"error"}

C7_Witness ==
    /\ ~key.present
    /\ pc = "stopped"
    /\ Len(user.experience) >= 1
    /\ page # <<>>

----------------------------------------------------------------------------
(* How many invocations of op the log holds. *)
Invocations(op) == Len(SelectSeq(calls, LAMBDA c : c.op = op))

(* C8: every enrichment operation makes exactly one call to the endpoint  *)
(* per invocation, whether the call succeeds or fails (no retry), and a   *)
(* failed call does not keep the later enrichment calls of the submission *)
(* from being made.                                                       *)
C8_OneCallEach ==
    /\ pc # "crashed"
    /\ \A i \in 1..Len(calls) : Len(calls[i].prompts) = 1
    /\ formRendered =>
         Invocations("generate_skills_suggestions") = Len(form.experience)
    /\ Generated =>
         Invocations("summarize_experience")
           = Cardinality(Described(form.experience))
    /\ pc = "done" =>
         /\ \A op \in PostSubmissionOps \ {"suggest_profile_improvements"} :
              Invocations(op) = 1
         /\ Invocations("suggest_profile_improvements")
              = IF form.linkedin # <<>> /\ is_valid_linkedin_url(form.linkedin)
                THEN 1 ELSE 0

(* The first call of the run failed and the eight after it were made. *)
C8_Witness ==
    /\ pc = "done"
    /\ Len(calls) >= 9
    /\ ~calls[1].out.ok
    /\ \A i \in 2..Len(calls) : calls[i].out.ok

----------------------------------------------------------------------------
(* The calls an action adds to the log. *)
NewCalls == SubSeq(calls', Len(calls) + 1, Len(calls'))

(* C9, as stated: generate_resume has no side effect beyond building the  *)
(* document; a call of generate_resume issues no request to the           *)
(* text-generation endpoint.                                              *)
C9_NoRequest == [][pc = "generate" => calls' = calls]_vars

(* C9, amended: beyond building the document, generate_resume's only side *)
(* effect is the endpoint request of each summarize_experience call it    *)
(* makes for an experience entry: it invokes no other enrichment          *)
(* operation, puts nothing on the page, and issues no request at all when *)
(* no experience entry has a non-empty description.                       *)
C9_OnlySummaryRequests ==
    [][pc = "generate" =>
         /\ page' = page
         /\ form' = form
         /\ resume_text' = resume_text
         /\ extracted_skills' = extracted_skills
         /\ Len(calls') >= Len(calls)
         /\ SubSeq(calls', 1, Len(calls)) = calls
         /\ Len(NewCalls) <= Len(form.experience)
         /\ \A k \in 1..Len(NewCalls) :
              /\ NewCalls[k].op = "summarize_experience"
              /\ \E i \in Described(form.experience) :
                   NewCalls[k].prompts
                     = <<SummarizePrompt(form.experience[i].description)>>
         /\ Described(form.experience) = {} => calls' = calls]_vars

(* generate_resume has returned after two requests to the endpoint. *)
C9_Witness ==
    /\ pc = "export"
    /\ Len(form.experience) = 2
    /\ Invocations("summarize_experience") = 2

----------------------------------------------------------------------------
(* The non-empty descriptions of the experience entries, in entry order. *)
Descriptions(experience) ==
    SelectSeq([i \in 1..Len(experience) |-> experience[i].description],
              LAMBDA t : t # <<>>)

(* C10: one call of generate_resume invokes summarize_experience exactly  *)
(* once for each experience entry with a non-empty description, in entry  *)
(* order, and not for an entry whose description is empty (its paragraph  *)
(* is then the empty string), nor for an education or project entry: it   *)
(* makes as many enrichment calls as there are experience entries with a  *)
(* non-empty description.                                                 *)
C10_OneSummaryPerDescription ==
    [][(pc = "generate" /\ pc' = "export") =>
         /\ Len(NewCalls) = Len(Descriptions(form.experience))
         /\ Len(NewCalls) = Cardinality(Described(form.experience))
         /\ \A k \in 1..Len(NewCalls) :
              /\ NewCalls[k].op = "summarize_experience"
              /\ NewCalls[k].prompts
                   = <<SummarizePrompt(Descriptions(form.experience)[k])>>
         /\ \A i \in 1..Len(form.experience) :
              form.experience[i].description = <<>> =>
                BlockParagraph(document', 2, 3, i, 3)
                  = [style |-> "Normal", text |-> <<>>]]_vars

(* An entry without a description before one with a description. *)
C10_Witness ==
    /\ pc = "export"
    /\ Len(form.experience) = 2
    /\ form.experience[1].description = <<>>
    /\ form.experience[2].description # <<>>
    /\ Len(form.education) >= 1
    /\ Invocations("summarize_experience") = 1

====
